---- MODULE Spec2Model ----
(***************************************************************************)
(* Model of build.py, the build orchestrator of azurite: three external    *)
(* compile calls, the '.target' / 'target' cache-directory toggle of the   *)
(* builtin_libraries workspace, and the staging of the shared libraries of *)
(* target/release into azurite_libraries.                                  *)
(*                                                                         *)
(* File names are sequences of one-character strings, so that endswith     *)
(* and the [3:] slice are computed as Python computes them.                *)
(***************************************************************************)
EXTENDS Integers, Sequences, FiniteSets, TLC

\* ------------------------------------------------------------------ bounds
\* Largest number of files the release-output directory holds.
MaxFiles == 4
\* Largest number of consecutive toggle calls of the toggle specification.
MaxCalls == 3

\* ------------------------------------------------------------- file names
DotDll == <<".", "d", "l", "l">>
DotSo == <<".", "s", "o">>
Dylib == <<"d", "y", "l", "i", "b">>

LibCoreSo == <<"l", "i", "b", "c", "o", "r", "e", ".", "s", "o">>
AbcCoreSo == <<"a", "b", "c", "c", "o", "r", "e", ".", "s", "o">>
CoreSo == <<"c", "o", "r", "e", ".", "s", "o">>
CoreDll == <<"c", "o", "r", "e", ".", "d", "l", "l">>
NotesTxt == <<"n", "o", "t", "e", "s", ".", "t", "x", "t">>
LibExtraDylib == <<"l", "i", "b", "e", "x", "t", "r", "a", ".", "d", "y", "l", "i", "b">>
ExtraDylib == <<"e", "x", "t", "r", "a", ".", "d", "y", "l", "i", "b">>
XyzFooDylib == <<"x", "y", "z", "f", "o", "o", ".", "d", "y", "l", "i", "b">>
FooDylib == <<"f", "o", "o", ".", "d", "y", "l", "i", "b">>
XDylib == <<"x", "d", "y", "l", "i", "b">>
OldDll == <<"o", "l", "d", ".", "d", "l", "l">>

\* The names the external compile may leave in target/release.
FileNames ==
    { LibCoreSo, AbcCoreSo, CoreDll, NotesTxt, LibExtraDylib, XyzFooDylib,
      XDylib, DotSo }

\* Content of a staged file that was there before the run.
OldContent == <<>>

\* ------------------------------------------------------------ str methods
\* str.endswith(suffix)
EndsWith(s, suffix) ==
    /\ Len(s) >= Len(suffix)
    /\ SubSeq(s, Len(s) - Len(suffix) + 1, Len(s)) = suffix

\* filename[3:]
SliceFrom3(s) == IF Len(s) <= 3 THEN <<>> ELSE SubSeq(s, 4, Len(s))

\* ------------------------------------------------------------- classifier
\* The condition of line 25: is the file copied at all.
Recognised(filename) ==
    \/ EndsWith(filename, DotDll)
    \/ EndsWith(filename, DotSo)
    \/ EndsWith(filename, Dylib)

\* A classifier that strips the prefix only when it is 'lib'.
ToFileLibOnly(filename) ==
    IF (EndsWith(filename, DotSo) \/ EndsWith(filename, Dylib))
       /\ Len(filename) >= 3 /\ SubSeq(filename, 1, 3) = <<"l", "i", "b">>
    THEN SliceFrom3(filename)
    ELSE filename

\* A classifier that strips three characters from every recognised name.
ToFileStripsAll(filename) ==
    IF Recognised(filename) THEN SliceFrom3(filename) ELSE filename

\* to_file of lines 26-28.
ToFile(filename) ==
    IF EndsWith(filename, DotSo) \/ EndsWith(filename, Dylib)
    THEN SliceFrom3(filename)
    ELSE filename

\* A copy that always writes library_folder + to_file as a file name.
CopyDestNoDir(filename) == ToFile(filename)

\* The name shutil.copy writes in azurite_libraries (line 29): the path
\* library_folder + to_file, which is the directory itself when to_file is
\* empty, and shutil.copy then copies under the source's base name.
CopyDest(filename) ==
    IF ToFile(filename) = <<>> THEN filename ELSE ToFile(filename)

\* ------------------------------------------------------- cache directories
\* A cache directory: whether it exists, whether it holds release/, and the
\* file names of release/.
Absent == [exists |-> FALSE, release |-> FALSE, files |-> {}]
NoRelease == [exists |-> TRUE, release |-> FALSE, files |-> {}]
WithRelease(fs) == [exists |-> TRUE, release |-> TRUE, files |-> fs]

\* The directory values a run may start with.
InitialDirs == { Absent, NoRelease, WithRelease({LibCoreSo}) }

\* os.rename that leaves the source in place (a copy).
RenameKeepsSource(src, dst) ==
    IF ~dst.exists
    THEN { [src |-> src, dst |-> src, raised |-> FALSE] }
    ELSE { [src |-> src, dst |-> dst, raised |-> TRUE] }

\* os.rename(src, dst) of a directory that exists: atomic; onto an existing
\* directory it raises OSError, except that POSIX replaces an empty one.
Rename(src, dst) ==
    IF ~dst.exists
    THEN { [src |-> Absent, dst |-> src, raised |-> FALSE] }
    ELSE { [src |-> src, dst |-> dst, raised |-> TRUE] }
         \cup (IF ~dst.release
               THEN { [src |-> Absent, dst |-> src, raised |-> FALSE] }
               ELSE {})

\* reveal written as a flip: it renames back when only 'target' exists.
RevealFlips(h, v) ==
    IF h.exists
    THEN { [hidden |-> r.src, visible |-> r.dst, raised |-> r.raised,
            renamed |-> ~r.raised] : r \in Rename(h, v) }
    ELSE IF v.exists
    THEN { [hidden |-> r.dst, visible |-> r.src, raised |-> r.raised,
            renamed |-> ~r.raised] : r \in Rename(v, h) }
    ELSE { [hidden |-> h, visible |-> v, raised |-> FALSE, renamed |-> FALSE] }

\* Lines 14-15: if os.path.exists(".target"): os.rename(".target", "target")
Reveal(h, v) ==
    IF h.exists
    THEN { [hidden |-> r.src, visible |-> r.dst, raised |-> r.raised,
            renamed |-> ~r.raised] : r \in Rename(h, v) }
    ELSE { [hidden |-> h, visible |-> v, raised |-> FALSE, renamed |-> FALSE] }

\* hide that tests the hidden name instead of the visible one.
HideWrongTest(h, v) ==
    IF h.exists
    THEN { [hidden |-> r.dst, visible |-> r.src, raised |-> r.raised,
            renamed |-> ~r.raised] : r \in Rename(v, h) }
    ELSE { [hidden |-> h, visible |-> v, raised |-> FALSE, renamed |-> FALSE] }

\* Lines 33-34: if os.path.exists("target"): os.rename("target", ".target")
Hide(h, v) ==
    IF v.exists
    THEN { [hidden |-> r.dst, visible |-> r.src, raised |-> r.raised,
            renamed |-> ~r.raised] : r \in Rename(v, h) }
    ELSE { [hidden |-> h, visible |-> v, raised |-> FALSE, renamed |-> FALSE] }

\* ------------------------------------------------------------------ state
VARIABLES
    pc,          \* position of the script
    cwd,         \* process working directory: "root" or "workspace"
    hidden,      \* builtin_libraries/.target
    visible,     \* builtin_libraries/target
    staging,     \* builtin_libraries/azurite_libraries
    remaining,   \* entries of os.listdir not yet visited by the loop
    to_file,     \* to_file of the last entry the loop copied
    from_file,   \* filename of the last entry the loop copied
    status,      \* exit status of the three os.system calls
    error,       \* the exception that ended the script, or "none"
    log,         \* the operations performed, in order
    start,       \* the directories the run started with
    calls,       \* toggle specification: the calls made
    snaps,       \* toggle specification: directories before and after each call
    products,    \* the file names the workspace's build can leave in release/
    first,       \* two-run specification: what the first run ended with
    other        \* order specification: the same loop under a second order

vars ==
    << pc, cwd, hidden, visible, staging, remaining, to_file, from_file,
       status, error, log, start, calls, snaps, products, first, other >>

fsVars == << hidden, visible, staging >>
loopVars == << remaining, to_file, from_file >>
toggleVars == << calls, snaps >>
runVars == << products, first, other >>

\* The staging directories a run may start with.
InitialStagings ==
    { [exists |-> FALSE, files |-> << >>],
      [exists |-> TRUE, files |-> << >>],
      [exists |-> TRUE, files |-> (CoreSo :> OldContent) @@ (OldDll :> OldContent)] }

StagedNames == DOMAIN staging.files

\* The sets of entries os.listdir(release_folder) may return.
FileSets == { fs \in SUBSET products : Cardinality(fs) <= MaxFiles }

\* Nothing recorded of an earlier run.
NoFirstRun == [done |-> FALSE, completed |-> FALSE, files |-> {}, staged |-> {}]

\* No second enumeration.
NoOther == [files |-> << >>, remaining |-> {}]

\* The orchestrator states of the design, from the position of the script.
State ==
    CASE pc = "Idle" -> "Idle"
      [] pc = "BuildingCli" -> "BuildingCli"
      [] pc \in {"Chdir", "Reveal", "PluginCompile", "Mkdir", "Listdir", "Loop",
                 "Hide", "ChdirBack"} -> "BuildingPlugins"
      [] pc = "BuildingInstaller" -> "BuildingInstaller"
      [] pc = "Done" -> "Done"
      [] OTHER -> "Aborted"

InitFiles ==
    /\ hidden \in InitialDirs
    /\ visible \in InitialDirs
    /\ staging \in InitialStagings

Init ==
    /\ InitFiles
    /\ pc = "Idle"
    /\ cwd = "root"
    /\ remaining = {}
    /\ to_file = <<>>
    /\ from_file = <<>>
    /\ status = [cli |-> "none", plugins |-> "none", installer |-> "none"]
    /\ error = "none"
    /\ log = <<>>
    /\ start = [hidden |-> hidden, visible |-> visible, staging |-> staging]
    /\ calls = <<>>
    /\ snaps = <<>>
    /\ products = FileNames
    /\ first = NoFirstRun
    /\ other = NoOther

\* An uncaught exception ends the script where it is raised.
Abort(what) ==
    /\ pc' = "Aborted"
    /\ error' = what

\* Lines 4-6: cwd = os.getcwd(); the CLI stage begins.
Start ==
    /\ pc = "Idle"
    /\ pc' = "BuildingCli"
    /\ UNCHANGED << cwd, fsVars, loopVars, status, error, log, start, toggleVars,
                   runVars >>

\* Lines 7-8: os.system of the CLI target; its status is dropped.
CompileCli ==
    /\ pc = "BuildingCli"
    /\ \E s \in {"ok", "fail"} : status' = [status EXCEPT !.cli = s]
    /\ log' = Append(log, "cli")
    /\ pc' = "Chdir"
    /\ UNCHANGED << cwd, fsVars, loopVars, error, start, toggleVars,
                   runVars >>

\* A script that exits when the CLI compile returned non-zero.
ChdirWorkspaceGated ==
    /\ pc = "Chdir"
    /\ IF status.cli = "ok"
       THEN /\ cwd' = "workspace"
            /\ pc' = "Reveal"
            /\ UNCHANGED error
       ELSE /\ Abort("exit")
            /\ UNCHANGED cwd
    /\ UNCHANGED << fsVars, loopVars, status, log, start, toggleVars, runVars >>

\* Lines 11-12: os.chdir("builtin_libraries")
ChdirWorkspace ==
    /\ pc = "Chdir"
    /\ cwd' = "workspace"
    /\ pc' = "Reveal"
    /\ UNCHANGED << fsVars, loopVars, status, error, log, start, toggleVars,
                   runVars >>

\* Lines 14-15 in the script.
RevealStep ==
    /\ pc = "Reveal"
    /\ \E r \in Reveal(hidden, visible) :
         /\ hidden' = r.hidden
         /\ visible' = r.visible
         /\ IF r.raised
            THEN Abort("rename")
            ELSE pc' = "PluginCompile" /\ UNCHANGED error
    /\ log' = Append(log, "reveal")
    /\ UNCHANGED << cwd, staging, loopVars, status, start, toggleVars,
                   runVars >>

\* What cargo may leave under 'target': it never removes the directory or
\* release/, and a build that succeeds leaves release/ in place.
CompileOutcomes(v, s) ==
    { d \in {Absent, NoRelease} \cup { WithRelease(fs) : fs \in FileSets } :
        /\ v.exists => d.exists
        /\ v.release => d.release
        /\ (s = "ok") => d.release }

\* Line 17: os.system("cargo build --release"); its status is dropped.
CompilePlugins ==
    /\ pc = "PluginCompile"
    /\ \E s \in {"ok", "fail"} :
         /\ status' = [status EXCEPT !.plugins = s]
         /\ visible' \in CompileOutcomes(visible, s)
    /\ log' = Append(log, "plugins")
    /\ pc' = "Mkdir"
    /\ UNCHANGED << cwd, hidden, staging, loopVars, error, start, toggleVars,
                   runVars >>

\* Lines 19-20: create azurite_libraries unless it exists.
EnsureStaging ==
    /\ pc = "Mkdir"
    /\ staging' = [staging EXCEPT !.exists = TRUE]
    /\ log' = Append(log, "mkdir")
    /\ pc' = "Listdir"
    /\ UNCHANGED << cwd, hidden, visible, loopVars, status, error, start, toggleVars,
                   runVars >>

\* Lines 22-24: os.listdir(release_folder) raises when target/release is missing.
ListRelease ==
    /\ pc = "Listdir"
    /\ IF visible.release
       THEN /\ remaining' = visible.files
            /\ pc' = "Loop"
            /\ UNCHANGED error
       ELSE /\ Abort("listdir")
            /\ UNCHANGED remaining
    /\ log' = Append(log, "listdir")
    /\ UNCHANGED << cwd, fsVars, to_file, from_file, status, start, toggleVars,
                   runVars >>

\* A copy that keeps the file it overwrites under a backup name.
CopyIntoBackup(files, filename) ==
    IF CopyDest(filename) \in DOMAIN files
    THEN (CopyDest(filename) :> filename)
         @@ (Append(CopyDest(filename), "~") :> files[CopyDest(filename)])
         @@ files
    ELSE (CopyDest(filename) :> filename) @@ files

\* A copy into a directory that is emptied first.
CopyIntoFresh(files, filename) ==
    (CopyDest(filename) :> filename)

\* The staging directory after shutil.copy of one file (line 29): the
\* destination is created or overwritten with the source's content.
CopyInto(files, filename) ==
    (CopyDest(filename) :> filename) @@ files

\* One iteration whose entry is skipped with no copy.
VisitSkipsDylib(filename) ==
    IF EndsWith(filename, DotDll) \/ EndsWith(filename, DotSo)
    THEN /\ staging' = [staging EXCEPT !.files = CopyInto(staging.files, filename)]
         /\ to_file' = ToFile(filename)
         /\ from_file' = filename
    ELSE UNCHANGED << staging, to_file, from_file >>

\* Lines 25-30 for one entry, when the copy succeeds.
Visit(filename) ==
    IF Recognised(filename)
    THEN /\ staging' = [staging EXCEPT !.files = CopyInto(staging.files, filename)]
         /\ to_file' = ToFile(filename)
         /\ from_file' = filename
    ELSE UNCHANGED << staging, to_file, from_file >>

\* A loop whose line 30 is 'break': it stops after the first copy.
RestAfterBreak(entries, filename) ==
    IF Recognised(filename) THEN {} ELSE entries \ {filename}

\* Line 30, 'continue': the entries still to visit after this one.
Rest(entries, filename) == entries \ {filename}

\* Lines 24-30: one iteration of the loop, in any enumeration order.
VisitEntry ==
    /\ pc = "Loop"
    /\ \E filename \in remaining :
         /\ remaining' = Rest(remaining, filename)
         /\ Visit(filename)
    /\ UNCHANGED << pc, cwd, hidden, visible, status, error, log, start, toggleVars,
                   runVars >>

\* A failing copy that removes what this invocation staged before it.
CopyFailsRollsBack ==
    /\ pc = "Loop"
    /\ \E filename \in remaining :
         /\ Recognised(filename)
         /\ remaining' = remaining \ {filename}
         /\ from_file' = filename
         /\ to_file' = ToFile(filename)
    /\ staging' = [staging EXCEPT !.files = start.staging.files]
    /\ Abort("copy")
    /\ log' = Append(log, "stage")
    /\ UNCHANGED << cwd, hidden, visible, status, start, toggleVars, runVars >>

\* Line 29 raising (permissions, disk full, the entry is a directory).
CopyFails ==
    /\ pc = "Loop"
    /\ \E filename \in remaining :
         /\ Recognised(filename)
         /\ remaining' = remaining \ {filename}
         /\ from_file' = filename
         /\ to_file' = ToFile(filename)
    /\ Abort("copy")
    /\ log' = Append(log, "stage")
    /\ UNCHANGED << cwd, fsVars, status, start, toggleVars,
                   runVars >>

\* A loop that runs the plugin compile again when it found no entry.
LoopEndRetries ==
    /\ pc = "Loop"
    /\ remaining = {}
    /\ log' = Append(log, "stage")
    /\ pc' = IF visible.files = {} THEN "PluginCompile" ELSE "Hide"
    /\ UNCHANGED << cwd, fsVars, loopVars, status, error, start, toggleVars, runVars >>

\* The loop of line 24 ends when every entry was visited.
LoopEnd ==
    /\ pc = "Loop"
    /\ remaining = {}
    /\ log' = Append(log, "stage")
    /\ pc' = "Hide"
    /\ UNCHANGED << cwd, fsVars, loopVars, status, error, start, toggleVars,
                   runVars >>

\* Lines 33-34 in the script.
HideStep ==
    /\ pc = "Hide"
    /\ \E r \in Hide(hidden, visible) :
         /\ hidden' = r.hidden
         /\ visible' = r.visible
         /\ IF r.raised
            THEN Abort("rename")
            ELSE pc' = "ChdirBack" /\ UNCHANGED error
    /\ log' = Append(log, "hide")
    /\ UNCHANGED << cwd, staging, loopVars, status, start, toggleVars,
                   runVars >>

\* Lines 36-41: os.chdir(cwd); the installer stage begins.
ChdirBack ==
    /\ pc = "ChdirBack"
    /\ cwd' = "root"
    /\ pc' = "BuildingInstaller"
    /\ UNCHANGED << fsVars, loopVars, status, error, log, start, toggleVars,
                   runVars >>

\* Lines 42-43: os.system of the installer target; its status is dropped.
CompileInstaller ==
    /\ pc = "BuildingInstaller"
    /\ \E s \in {"ok", "fail"} : status' = [status EXCEPT !.installer = s]
    /\ log' = Append(log, "installer")
    /\ pc' = "Done"
    /\ UNCHANGED << cwd, fsVars, loopVars, error, start, toggleVars,
                   runVars >>

Next ==
    \/ Start
    \/ CompileCli
    \/ ChdirWorkspace
    \/ RevealStep
    \/ CompilePlugins
    \/ EnsureStaging
    \/ ListRelease
    \/ VisitEntry
    \/ CopyFails
    \/ LoopEnd
    \/ HideStep
    \/ ChdirBack
    \/ CompileInstaller

Spec == Init /\ [][Next]_vars

\* ------------------------------------------------- the toggle on its own
\* reveal() and hide() called back to back on the workspace, with nothing
\* in between.
ToggleInit ==
    /\ InitFiles
    /\ pc = "Toggle"
    /\ cwd = "workspace"
    /\ remaining = {}
    /\ to_file = <<>>
    /\ from_file = <<>>
    /\ status = [cli |-> "none", plugins |-> "none", installer |-> "none"]
    /\ error = "none"
    /\ log = <<>>
    /\ start = [hidden |-> hidden, visible |-> visible, staging |-> staging]
    /\ calls = <<>>
    /\ snaps = << [hidden |-> hidden, visible |-> visible] >>
    /\ products = FileNames
    /\ first = NoFirstRun
    /\ other = NoOther

\* One call of the toggle; a raised OSError is the call's result.
Call(op, outcomes) ==
    /\ pc = "Toggle"
    /\ Len(calls) < MaxCalls
    /\ \E r \in outcomes :
         /\ hidden' = r.hidden
         /\ visible' = r.visible
         /\ calls' = Append(calls, [op |-> op, raised |-> r.raised,
                                    renamed |-> r.renamed])
         /\ snaps' = Append(snaps, [hidden |-> r.hidden, visible |-> r.visible])
    /\ UNCHANGED << pc, cwd, staging, loopVars, status, error, log, start, runVars >>

CallReveal == Call("reveal", Reveal(hidden, visible))

CallHide == Call("hide", Hide(hidden, visible))

ToggleNext ==
    \/ CallReveal
    \/ CallHide

ToggleSpec == ToggleInit /\ [][ToggleNext]_vars

\* ------------------------------------------------------ the script, twice
\* The file names the build of the two-run specification can produce.
TwoRunProducts == { LibCoreSo, AbcCoreSo, CoreDll, NotesTxt }

TwoRunInit ==
    /\ InitFiles
    /\ pc = "Idle"
    /\ cwd = "root"
    /\ remaining = {}
    /\ to_file = <<>>
    /\ from_file = <<>>
    /\ status = [cli |-> "none", plugins |-> "none", installer |-> "none"]
    /\ error = "none"
    /\ log = <<>>
    /\ start = [hidden |-> hidden, visible |-> visible, staging |-> staging]
    /\ calls = <<>>
    /\ snaps = <<>>
    /\ products = TwoRunProducts
    /\ first = NoFirstRun
    /\ other = NoOther

\* The script is started a second time, on the directories the first run
\* left, once the first run has stopped.
Rerun ==
    /\ pc \in {"Done", "Aborted"}
    /\ ~first.done
    /\ first' = [done |-> TRUE,
                 completed |-> (pc = "Done"),
                 files |-> (IF visible.exists THEN visible.files ELSE hidden.files),
                 staged |-> StagedNames]
    /\ pc' = "Idle"
    /\ cwd' = "root"
    /\ remaining' = {}
    /\ to_file' = <<>>
    /\ from_file' = <<>>
    /\ status' = [cli |-> "none", plugins |-> "none", installer |-> "none"]
    /\ error' = "none"
    /\ log' = <<>>
    /\ start' = [hidden |-> hidden, visible |-> visible, staging |-> staging]
    /\ UNCHANGED << fsVars, toggleVars, products, other >>

TwoRunNext ==
    \/ Next
    \/ Rerun

TwoRunSpec == TwoRunInit /\ [][TwoRunNext]_vars

\* ------------------------------------- the staging loop under two orders
\* The loop of lines 24-30 over one release-output directory, enumerated
\* twice side by side: 'staging' under one order of os.listdir, 'other'
\* under another, from the same staging directory.
OrderInit ==
    /\ products = FileNames
    /\ hidden = Absent
    /\ visible \in { WithRelease(fs) : fs \in FileSets }
    /\ staging \in { d \in InitialStagings : d.exists }
    /\ pc = "Loop"
    /\ cwd = "workspace"
    /\ remaining = visible.files
    /\ to_file = <<>>
    /\ from_file = <<>>
    /\ status = [cli |-> "ok", plugins |-> "ok", installer |-> "none"]
    /\ error = "none"
    /\ log = << "cli", "reveal", "plugins", "mkdir", "listdir" >>
    /\ start = [hidden |-> visible, visible |-> Absent, staging |-> staging]
    /\ calls = <<>>
    /\ snaps = <<>>
    /\ first = NoFirstRun
    /\ other = [files |-> staging.files, remaining |-> visible.files]

\* Lines 25-30 for one entry of the second enumeration.
VisitOther ==
    /\ pc = "Loop"
    /\ \E filename \in other.remaining :
         other' = [files |-> IF Recognised(filename)
                             THEN CopyInto(other.files, filename)
                             ELSE other.files,
                   remaining |-> Rest(other.remaining, filename)]
    /\ UNCHANGED << pc, cwd, fsVars, loopVars, status, error, log, start,
                    toggleVars, products, first >>

OrderNext ==
    \/ VisitEntry
    \/ VisitOther

OrderSpec == OrderInit /\ [][OrderNext]_vars

\* ----------------------------------------------------------------- claims
AtMostOne(d) == ~(d.hidden.exists /\ d.visible.exists)

StartAtMostOne == AtMostOne(start)

\* The run has stopped: the script ran to its end or an exception ended it.
Stopped == pc \in {"Done", "Aborted"}

Logged(op) == \E i \in 1..Len(log) : log[i] = op

\* The recognised files of a release-output directory.
Artifacts(files) == { f \in files : Recognised(f) }

\* C1: in every state of a run that starts with at most one of '.target'
\* and 'target' present, at most one of the two names exists.
C1_AtMostOneName ==
    StartAtMostOne => ~(hidden.exists /\ visible.exists)

\* A run that started hidden, revealed, compiled, staged and hid again.
C1_Witness ==
    /\ start.hidden.exists /\ ~start.visible.exists
    /\ pc = "Done"
    /\ Logged("reveal") /\ Logged("plugins") /\ Logged("stage") /\ Logged("hide")
    /\ hidden.exists /\ ~visible.exists

\* C2: when the plugin compile fails, whatever it left on disk, the run does
\* not abort: staging and hide() are still performed, and once the stage is
\* over the visible name is gone.
C2_CompileFailureDoesNotAbort ==
    (StartAtMostOne /\ status.plugins = "fail" /\ error # "copy") =>
        /\ pc # "Aborted"
        /\ (pc \in {"ChdirBack", "BuildingInstaller", "Done"} =>
              Logged("stage") /\ Logged("hide") /\ ~visible.exists)

\* C3: when staging fails with an I/O error (the release-output directory
\* cannot be listed, or a copy fails), hide() is still attempted, and the run
\* does not end with the cache under the visible name.
C3_HideAttemptedAfterStagingFailure ==
    (StartAtMostOne /\ Stopped /\ error \in {"listdir", "copy"}) =>
        /\ Logged("hide")
        /\ ~visible.exists

\* C4: every run reaches Done, having run the CLI, plugin and installer
\* compiles; a run is never stopped anywhere else.
C4_ReachesDone ==
    StartAtMostOne =>
        /\ pc = "Done" \/ ENABLED Next
        /\ pc = "Done" => Logged("cli") /\ Logged("plugins") /\ Logged("installer")

\* C5: a plugin-library stage that starts with the cache hidden or absent
\* and whose compile succeeds ends with the cache under the hidden name only,
\* and every artifact of the release-output directory is staged under its
\* classified name.
C5_PluginStageEnd ==
    (pc = "ChdirBack" /\ ~start.visible.exists /\ status.plugins = "ok") =>
        /\ hidden.exists /\ ~visible.exists
        /\ hidden.release
        /\ staging.exists
        /\ \A f \in Artifacts(hidden.files) :
             \E n \in StagedNames :
                /\ staging.files[n] \in Artifacts(hidden.files)
                /\ ToFile(staging.files[n]) = ToFile(f)
                /\ ToFile(f) # <<>> => n = ToFile(f)
        /\ \A n \in StagedNames :
             staging.files[n] # OldContent => staging.files[n] \in Artifacts(hidden.files)

\* The stage has ended after a successful compile of four files, started hidden.
C5_Witness ==
    /\ pc = "ChdirBack" /\ status.plugins = "ok"
    /\ start.hidden.exists /\ ~start.visible.exists
    /\ hidden.files = {LibCoreSo, CoreDll, NotesTxt, LibExtraDylib}
    /\ ~visible.exists
    /\ {CoreSo, CoreDll, ExtraDylib} \subseteq StagedNames
    /\ staging.files[CoreSo] = LibCoreSo

\* C6: in a run that starts with the cache hidden or absent, the visible
\* name exists only inside the plugin-library stage: not in Idle, BuildingCli,
\* BuildingInstaller or Done, nor in a state in which the run has stopped.
C6_VisibleOnlyInsidePluginStage ==
    (~start.visible.exists /\ State \in {"Idle", "BuildingCli", "BuildingInstaller",
                                         "Done", "Aborted"}) =>
        ~visible.exists

\* C7: reveal() then hide() from a state with at most one name present
\* leaves the directory under the hidden name (absent if it was absent), and
\* no state before, between or after the two calls has both names.
C7_RoundTrip ==
    (/\ Len(calls) >= 2
     /\ calls[1].op = "reveal" /\ calls[2].op = "hide"
     /\ AtMostOne(snaps[1])) =>
        /\ \A i \in 1..3 : AtMostOne(snaps[i])
        /\ ~calls[1].raised /\ ~calls[2].raised
        /\ ~snaps[3].visible.exists
        /\ snaps[3].hidden =
             IF snaps[1].hidden.exists THEN snaps[1].hidden ELSE snaps[1].visible

\* reveal() then hide() from the hidden-only state, both renaming.
C7_Witness ==
    /\ Len(calls) >= 2
    /\ calls[1].op = "reveal" /\ calls[2].op = "hide"
    /\ snaps[1].hidden.release /\ ~snaps[1].visible.exists
    /\ calls[1].renamed /\ calls[2].renamed
    /\ snaps[2].visible.exists
    /\ snaps[3].hidden.release

\* C8: from a state with at most one name present, the second of two equal
\* calls in a row succeeds, renames nothing and leaves the state of the first.
C8_Idempotent ==
    \A i \in 1..(Len(calls) - 1) :
        (calls[i].op = calls[i + 1].op /\ AtMostOne(snaps[i])) =>
            /\ snaps[i + 2] = snaps[i + 1]
            /\ ~calls[i + 1].raised
            /\ ~calls[i + 1].renamed

\* reveal() twice from hidden-only, then hide() twice.
C8_Witness ==
    /\ Len(calls) >= 2
    /\ calls[1].op = "reveal" /\ calls[2].op = "reveal"
    /\ snaps[1].hidden.exists /\ ~snaps[1].visible.exists
    /\ calls[1].renamed
    /\ snaps[3].visible.exists /\ ~snaps[3].hidden.exists

\* C9, as stated: with the staging directory absent beforehand, after the
\* staging step the directory exists and its names are exactly the
\* classified names (first three characters removed for '.so' and 'dylib')
\* of the recognised source files.
C9_StagedExactlyClassified ==
    (pc = "Hide" /\ ~start.staging.exists) =>
        /\ staging.exists
        /\ StagedNames = { ToFile(f) : f \in Artifacts(visible.files) }

\* C9, amended: the same, except that a recognised source file whose
\* classified name is empty (the file named '.so') is staged under its own
\* name.
C9_StagedExactlyClassifiedOrOwnName ==
    (pc = "Hide" /\ ~start.staging.exists) =>
        /\ staging.exists
        /\ StagedNames =
             { (IF ToFile(f) = <<>> THEN f ELSE ToFile(f)) :
                  f \in Artifacts(visible.files) }
        /\ \A f \in visible.files : ~Recognised(f) =>
              \A n \in StagedNames : staging.files[n] # f

\* The example of the design: four source files, three staged.
C9_Witness ==
    /\ pc = "Hide" /\ ~start.staging.exists
    /\ visible.files = {LibCoreSo, CoreDll, NotesTxt, LibExtraDylib}
    /\ staging.exists
    /\ StagedNames = {CoreSo, CoreDll, ExtraDylib}

\* C10: for a copied file ending in '.so' or 'dylib', to_file is the file
\* name without its first three characters, whatever they are, and a
\* non-empty to_file is the name the file is staged under.
C10_StripsThreeCharacters ==
    (/\ from_file # <<>>
     /\ EndsWith(from_file, DotSo) \/ EndsWith(from_file, Dylib)) =>
        /\ Len(to_file) = (IF Len(from_file) > 3 THEN Len(from_file) - 3 ELSE 0)
        /\ \A i \in 1..Len(to_file) : to_file[i] = from_file[i + 3]
        /\ (error = "none" /\ to_file # <<>>) =>
              /\ to_file \in StagedNames
              /\ staging.files[to_file] = from_file

\* 'xyzfoo.dylib' was copied as 'foo.dylib'.
C10_Witness ==
    /\ from_file = XyzFooDylib
    /\ to_file = FooDylib
    /\ error = "none"
    /\ FooDylib \in StagedNames
    /\ staging.files[FooDylib] = XyzFooDylib

\* C11: for a copied file ending in '.dll', to_file is the file name
\* unchanged, and the file is staged under that name.
C11_DllUnchanged ==
    (from_file # <<>> /\ EndsWith(from_file, DotDll)) =>
        /\ to_file = from_file
        /\ error = "none" =>
              /\ from_file \in StagedNames
              /\ staging.files[from_file] = from_file

\* 'core.dll' was copied as 'core.dll'.
C11_Witness ==
    /\ from_file = CoreDll
    /\ to_file = CoreDll
    /\ error = "none"
    /\ CoreDll \in StagedNames
    /\ staging.files[CoreDll] = CoreDll

\* The operations of a run, in the order of the script.
FullOrder ==
    << "cli", "reveal", "plugins", "mkdir", "listdir", "stage", "hide", "installer" >>

\* How many operations have been performed at each position of the script.
Performed ==
    CASE pc \in {"Idle", "BuildingCli"} -> 0
      [] pc \in {"Chdir", "Reveal"} -> 1
      [] pc = "PluginCompile" -> 2
      [] pc = "Mkdir" -> 3
      [] pc = "Listdir" -> 4
      [] pc = "Loop" -> 5
      [] pc = "Hide" -> 6
      [] pc \in {"ChdirBack", "BuildingInstaller"} -> 7
      [] OTHER -> 8

\* C13: no exit status gates anything: at every position the operations
\* performed so far are the same whatever the three statuses are, only an
\* I/O exception ever stops a run, and the installer compile ends in Done.
C13_StatusGatesNothing ==
    /\ pc = "Aborted" => error \in {"rename", "listdir", "copy"}
    /\ pc # "Aborted" => log = SubSeq(FullOrder, 1, Performed)
    /\ status.installer # "none" => pc = "Done"

\* A run in which the CLI and the installer compile both failed is in Done,
\* every operation performed.
C13_Witness ==
    /\ pc = "Done"
    /\ status.cli = "fail" /\ status.installer = "fail"
    /\ log = FullOrder

\* The position of the script as a number; an aborted script is at its end.
Rank(p) ==
    CASE p = "Idle" -> 0
      [] p = "BuildingCli" -> 1
      [] p = "Chdir" -> 2
      [] p = "Reveal" -> 3
      [] p = "PluginCompile" -> 4
      [] p = "Mkdir" -> 5
      [] p = "Listdir" -> 6
      [] p = "Loop" -> 7
      [] p = "Hide" -> 8
      [] p = "ChdirBack" -> 9
      [] p = "BuildingInstaller" -> 10
      [] OTHER -> 11

\* C14: every step moves forward in the script, never back, and performs
\* either no operation or the one that follows the last performed in the
\* fixed order; so each operation, each compile among them, runs at most
\* once and after the ones before it.
C14_FixedLinearOrder ==
    [][ /\ Rank(pc') >= Rank(pc)
        /\ \/ log' = log
           \/ /\ Len(log) < Len(FullOrder)
              /\ log' = Append(log, FullOrder[Len(log) + 1]) ]_vars

\* A run that performed every operation.
C14_Witness ==
    /\ pc = "Done"
    /\ log = FullOrder
    /\ status.cli # "none" /\ status.plugins # "none" /\ status.installer # "none"

\* C15: when the installer compile is invoked and when the run has ended,
\* the working directory is the one the run started in; it is another one
\* only inside the plugin-library stage.
C15_CwdRestored ==
    StartAtMostOne =>
        /\ (pc = "BuildingInstaller" \/ Stopped) => cwd = "root"
        /\ cwd # "root" => State = "BuildingPlugins"

\* The entries the loop visited before the one whose copy failed.
Earlier == Artifacts(visible.files \ (remaining \cup {from_file}))

\* C16: after a copy has failed, every file an earlier copy of the same
\* loop staged is still in the staging directory under its staged name, and
\* no later entry has been copied.
C16_NoRollback ==
    (pc = "Aborted" /\ error = "copy") =>
        /\ \A f \in Earlier :
             \E n \in StagedNames :
                /\ staging.files[n] \in Earlier
                /\ ToFile(staging.files[n]) = ToFile(f)
                /\ ToFile(f) # <<>> => n = ToFile(f)
        /\ \A f \in remaining : \A n \in StagedNames : staging.files[n] # f

\* The copy of 'core.dll' failed after 'libcore.so' was staged and before
\* 'libextra.dylib' was visited.
C16_Witness ==
    /\ pc = "Aborted" /\ error = "copy"
    /\ from_file = CoreDll
    /\ LibCoreSo \in Earlier
    /\ CoreSo \in StagedNames /\ staging.files[CoreSo] = LibCoreSo
    /\ LibExtraDylib \in remaining
    /\ CoreDll \notin StagedNames

\* C17: every name the staging directory held before the run is still
\* there, and every file staged by the run is still in the release-output
\* directory it was copied from.
C17_NeverRemoves ==
    /\ start.staging.exists => staging.exists
    /\ DOMAIN start.staging.files \subseteq StagedNames
    /\ \A n \in StagedNames :
         staging.files[n] # OldContent =>
            staging.files[n] \in (visible.files \cup hidden.files)

\* A finished run over a staging directory that held 'core.so' and
\* 'old.dll': the first was overwritten, the second, which the build does
\* not produce, was kept.
C17_Witness ==
    /\ pc = "Done"
    /\ OldDll \in DOMAIN start.staging.files
    /\ OldDll \in StagedNames /\ staging.files[OldDll] = OldContent
    /\ staging.files[CoreSo] = LibCoreSo
    /\ hidden.files = {LibCoreSo, CoreDll}
    /\ staging.files[CoreDll] = CoreDll

\* C12: when the script has run to its end twice and the release-output
\* directory held the same files both times, the staging directory holds
\* the same file names after the second run as after the first.
C12_SecondRunSameNames ==
    (/\ first.done /\ first.completed
     /\ pc = "Done"
     /\ hidden.files = first.files) =>
        StagedNames = first.staged

\* Two finished runs over the same three release files.
C12_Witness ==
    /\ first.done /\ first.completed
    /\ pc = "Done"
    /\ first.files = {LibCoreSo, CoreDll, NotesTxt}
    /\ hidden.files = first.files
    /\ first.staged = {CoreSo, CoreDll}
    /\ StagedNames = {CoreSo, CoreDll}

\* Both enumerations have visited every entry.
BothOrdersDone == pc = "Loop" /\ remaining = {} /\ other.remaining = {}

\* The recognised source files copied to a staged name.
SourcesOf(n) == { f \in Artifacts(visible.files) : CopyDest(f) = n }

\* C18, as stated: under any two enumeration orders the staging directory
\* ends with the same names, each holding the content of the same source
\* file, also when two artifacts map to one staged name.
C18_OrderIndependent ==
    BothOrdersDone => staging.files = other.files

\* C18, amended: the names are the same under any two orders, and so is
\* the content of every staged name that at most one artifact maps to; a
\* name two artifacts map to holds one of them, the one enumerated last.
C18_OrderIndependentNames ==
    BothOrdersDone =>
        /\ StagedNames = DOMAIN other.files
        /\ \A n \in StagedNames :
             IF Cardinality(SourcesOf(n)) <= 1
             THEN staging.files[n] = other.files[n]
             ELSE staging.files[n] \in SourcesOf(n) /\ other.files[n] \in SourcesOf(n)

\* 'libcore.so' and 'abccore.so' enumerated in opposite orders: 'core.so'
\* is staged both times, with the content of a different file; 'core.dll'
\* holds the same content both times.
C18_Witness ==
    /\ BothOrdersDone
    /\ visible.files = {LibCoreSo, AbcCoreSo, CoreDll}
    /\ StagedNames = DOMAIN other.files
    /\ staging.files[CoreSo] = LibCoreSo
    /\ other.files[CoreSo] = AbcCoreSo
    /\ staging.files[CoreDll] = CoreDll /\ other.files[CoreDll] = CoreDll

====
